---- MODULE Spec2Model ----
(***************************************************************************)
(* Model of src/src/scraper.ts: the four-level crawl                       *)
(* departments -> course codes -> courses (schedules) -> sections.         *)
(*                                                                         *)
(* Strings are sequences of one-character strings, so that slice, split,   *)
(* trim, indexOf and the regular expressions of the source can be          *)
(* computed character by character.  A page is what cheerio hands to the   *)
(* code: the href values (or link texts) of its anchors in document order. *)
(***************************************************************************)
EXTENDS Integers, Sequences, FiniteSets, TLC

VARIABLES pc, departments, di, failed, results, tasks, settled, net, output, probe

mainVars == <<pc, departments, di, failed, results, tasks, settled, net, output>>
vars == <<pc, departments, di, failed, results, tasks, settled, net, output, probe>>

(***************************************************************************)
(* Bounds of the model.                                                    *)
(***************************************************************************)
MaxDeptLinks == 2
MaxTasks == 2
MaxScheds == 2
MaxSectionLinks == 2
MaxProbeLen == 5
MaxProbeLinks == 2
MaxPieces == 4

(***************************************************************************)
(* Characters and JavaScript string primitives.                            *)
(***************************************************************************)
Upper == {"A", "B", "C", "D", "E", "F", "G", "H", "I", "J", "K", "L", "M",
          "N", "O", "P", "Q", "R", "S", "T", "U", "V", "W", "X", "Y", "Z"}
Lower == {"a", "b", "c", "d", "e", "f", "g", "h", "i", "j", "k", "l", "m",
          "n", "o", "p", "q", "r", "s", "t", "u", "v", "w", "x", "y", "z"}
Digit == {"0", "1", "2", "3", "4", "5", "6", "7", "8", "9"}
Digit07 == {"0", "1", "2", "3", "4", "5", "6", "7"}
WordChar == Upper \cup Lower \cup Digit \cup {"_"}
SpaceChar == {" ", "\t", "\n", "\r"}
LineTerminator == {"\n", "\r"}

Min(a, b) == IF a < b THEN a ELSE b
Max(a, b) == IF a > b THEN a ELSE b

\* String.prototype.slice(a, b) with 0-based, possibly negative, indices.
Slice(s, a, b) ==
  LET n == Len(s)
      from == IF a < 0 THEN Max(n + a, 0) ELSE Min(a, n)
      to == IF b < 0 THEN Max(n + b, 0) ELSE Min(b, n)
  IN SubSeq(s, from + 1, to)

\* String.prototype.indexOf(c): 0-based index of the first c, -1 if none.
IndexOf(s, c) ==
  IF \E p \in 1..Len(s) : s[p] = c
  THEN (CHOOSE p \in 1..Len(s) : s[p] = c /\ \A q \in 1..(p - 1) : s[q] # c) - 1
  ELSE -1

\* String.prototype.charAt(i): the character at 0-based i, "" if out of range.
CharAt(s, i) == IF i >= 0 /\ i < Len(s) THEN <<s[i + 1]>> ELSE <<>>

\* String.prototype.trim().
RECURSIVE TrimStart(_)
TrimStart(s) ==
  IF s # <<>> /\ Head(s) \in SpaceChar THEN TrimStart(Tail(s)) ELSE s

RECURSIVE TrimEnd(_)
TrimEnd(s) ==
  IF s # <<>> /\ s[Len(s)] \in SpaceChar
  THEN TrimEnd(SubSeq(s, 1, Len(s) - 1)) ELSE s

Trim(s) == TrimEnd(TrimStart(s))

\* String.prototype.split('-'): the segments between the dashes.
RECURSIVE Split(_)
Split(s) ==
  LET i == IndexOf(s, "-")
  IN IF i = -1 THEN <<s>>
     ELSE <<SubSeq(s, 1, i)>> \o Split(SubSeq(s, i + 2, Len(s)))

\* Array.prototype.flat() on an array of arrays.
RECURSIVE Flat(_)
Flat(ss) == IF ss = <<>> THEN <<>> ELSE Head(ss) \o Flat(Tail(ss))

\* Every position a..b of s holds a character of class C (true when b < a).
IsRun(s, a, b, C) == \A p \in a..b : s[p] \in C

(***************************************************************************)
(* The extractors: what each function does with a fetched page.            *)
(***************************************************************************)
BASE_URL == "https://web.uvic.ca/calendar2020-01/CDs/"
SECTIONS_URL == "https://www.uvic.ca/BAN1P/bwckctlg.p_disp_listcrse"

\* /^[A-Z]+/g.test(department), guarded by `department &&`.
IsDepartmentHref(h) == h # <<>> /\ h[1] \in Upper

\* getDepartments, lines 34-41: one entry per qualifying href, last char cut.
RECURSIVE ExtractDepartments(_)
ExtractDepartments(hrefs) ==
  IF hrefs = <<>> THEN <<>>
  ELSE (IF IsDepartmentHref(Head(hrefs))
        THEN <<Slice(Head(hrefs), 0, -1)>> ELSE <<>>)
       \o ExtractDepartments(Tail(hrefs))

\* /^[0-7]+/g.test(course), guarded by `course &&`.
IsCourseHref(h) == h # <<>> /\ h[1] \in Digit07

\* getCourseCodes, lines 60-67.
RECURSIVE ExtractCourseCodes(_)
ExtractCourseCodes(hrefs) ==
  IF hrefs = <<>> THEN <<>>
  ELSE (IF IsCourseHref(Head(hrefs))
        THEN <<Slice(Head(hrefs), 0, IndexOf(Head(hrefs), "."))>> ELSE <<>>)
       \o ExtractCourseCodes(Tail(hrefs))

\* /[\w\s]*-[\d\s]*-.*-.*/g.test(linkText) with the match starting at s:
\* three dashes d1 < d2 < d3, word or space characters before d1, digits or
\* spaces between d1 and d2, no line terminator between d2 and d3.
SectionMatchAt(t, s) ==
  \E d1 \in s..Len(t) :
     /\ t[d1] = "-"
     /\ IsRun(t, s, d1 - 1, WordChar \cup SpaceChar)
     /\ \E d2 \in (d1 + 1)..Len(t) :
           /\ t[d2] = "-"
           /\ IsRun(t, d1 + 1, d2 - 1, Digit \cup SpaceChar)
           /\ \E d3 \in (d2 + 1)..Len(t) :
                 /\ t[d3] = "-"
                 /\ \A p \in (d2 + 1)..(d3 - 1) : t[p] \notin LineTerminator

\* The regular expression is not anchored: a match may start anywhere.
IsSectionText(t) == t # <<>> /\ \E s \in 1..Len(t) : SectionMatchAt(t, s)

\* getSections, lines 89-93.
SectionOf(t) ==
  LET linkArray == Split(t)
  IN [crn |-> Trim(linkArray[2]),
      sectionType |-> CharAt(linkArray[4], 1),
      sectionNumber |-> Slice(linkArray[4], 2, 4)]

\* getSections, lines 85-96.
RECURSIVE ExtractSections(_)
ExtractSections(texts) ==
  IF texts = <<>> THEN <<>>
  ELSE (IF IsSectionText(Head(texts)) THEN <<SectionOf(Head(texts))>> ELSE <<>>)
       \o ExtractSections(Tail(texts))

\* getOffered, lines 124-130: the query string of every href under #schedules.
RECURSIVE ExtractSchedules(_)
ExtractSchedules(hrefs) ==
  IF hrefs = <<>> THEN <<>>
  ELSE (IF Head(hrefs) # <<>>
        THEN <<Slice(Head(hrefs), IndexOf(Head(hrefs), "?"), Len(Head(hrefs)))>>
        ELSE <<>>)
       \o ExtractSchedules(Tail(hrefs))

TermIn == <<"t", "e", "r", "m", "_", "i", "n", "=">>

\* /term_in=(\d+)/ matches at 1-based position p of the schedule string.
TermMatchAt(q, p) ==
  /\ p + Len(TermIn) <= Len(q)
  /\ SubSeq(q, p, p + Len(TermIn) - 1) = TermIn
  /\ q[p + Len(TermIn)] \in Digit

\* The greedy \d+ starting at position p.
RECURSIVE DigitRun(_, _)
DigitRun(q, p) ==
  IF p <= Len(q) /\ q[p] \in Digit THEN <<q[p]>> \o DigitRun(q, p + 1) ELSE <<>>

\* TermOf without the `|| '0'` of line 137.
TermOf_NoSentinel(schedule) ==
  LET starts == {p \in 1..Len(schedule) : TermMatchAt(schedule, p)}
  IN IF starts = {} THEN <<>>
     ELSE LET p == CHOOSE x \in starts : \A y \in starts : x <= y
          IN DigitRun(schedule, p + Len(TermIn))

\* getOffered, lines 135 and 137: (schedule.match(...) || [])[1], then
\* term || '0'.  The leftmost match wins; no match gives undefined.
TermOf(schedule) ==
  LET starts == {p \in 1..Len(schedule) : TermMatchAt(schedule, p)}
      term == IF starts = {} THEN <<>>
              ELSE LET p == CHOOSE x \in starts : \A y \in starts : x <= y
                   IN DigitRun(schedule, p + Len(TermIn))
  IN IF term # <<>> THEN term ELSE <<"0">>

(***************************************************************************)
(* The pages the fetcher may return during a crawl.                        *)
(***************************************************************************)
\* All sequences over S of length at most n.
SeqsUpTo(S, n) == UNION {[1..m -> S] : m \in 0..n}

CSC == <<"C", "S", "C">>
MATH == <<"M", "A", "T", "H">>
C225 == <<"2", "2", "5">>
C370 == <<"3", "7", "0">>
DotHtml == <<".", "h", "t", "m", "l">>
T202009 == <<"2", "0", "2", "0", "0", "9">>

DeptHrefs == {CSC \o <<"/">>, MATH \o <<"/">>}
CodeHrefs == {C225 \o DotHtml, C370 \o DotHtml}
SchedHrefs == {<<"s", "?">> \o TermIn \o T202009, <<"s", "?", "x", "=", "1">>}
LecText == <<"L", "E", "C", " ", "-", " ", "1", "2", "3", "4", "5", " ", "-",
             " ", "A", " ", "-", " ", "L", "0", "1">>
SectionTexts == {LecText}
Title == <<" ", "T", " ">>

BasePages == SeqsUpTo(DeptHrefs, MaxDeptLinks)
CodePages(n) == SeqsUpTo(CodeHrefs, n)
CoursePages(n) == [title : {Title}, links : SeqsUpTo(SchedHrefs, n)]
SectionPages == SeqsUpTo(SectionTexts, MaxSectionLinks)

(***************************************************************************)
(* The page fetcher: every request the program has issued, by the unit of  *)
(* work that issued it.                                                    *)
(***************************************************************************)
BaseUnit == [kind |-> "base", i |-> 0, j |-> 0, k |-> 0]
CodesUnit(i) == [kind |-> "codes", i |-> i, j |-> 0, k |-> 0]
CourseUnit(i, j) == [kind |-> "course", i |-> i, j |-> j, k |-> 0]
SectionsUnit(i, j, k) == [kind |-> "sections", i |-> i, j |-> j, k |-> k]

\* request(url): the request is in flight until it is answered.
Issue(n, u, url) ==
  IF u \in DOMAIN n
  THEN [n EXCEPT ![u] = [url |-> url, status |-> "inflight", body |-> <<>>,
                         count |-> @.count + 1]]
  ELSE n @@ (u :> [url |-> url, status |-> "inflight", body |-> <<>>, count |-> 1])

\* The awaited request resolves with a page, or rejects.
Answer(n, u, page) == [n EXCEPT ![u].status = "ok", ![u].body = page]
\* Reject with the failed request issued once more.
Reject_Retry(n, u) == Issue(n, u, n[u].url)

Reject(n, u) == [n EXCEPT ![u].status = "failed"]

InFlight(u) == u \in DOMAIN net /\ net[u].status = "inflight"

BaseUrl == <<BASE_URL>>
CodesUrl(department) == <<BASE_URL>> \o department
CourseUrl(subject, code) == <<BASE_URL>> \o subject \o <<"/">> \o code \o DotHtml
SectionsUrl(params) == <<SECTIONS_URL>> \o params

(***************************************************************************)
(* main and the getOffered tasks.                                          *)
(***************************************************************************)
MainInit ==
  /\ pc = "Idle"
  /\ departments = <<>>
  /\ di = 0
  /\ failed = <<>>
  /\ results = <<>>
  /\ tasks = <<>>
  /\ settled = <<>>
  /\ net = <<>>
  /\ output = <<>>

Init == MainInit /\ probe = <<>>

\* Number of getOffered calls and of schedule links met so far.
NumTasks == Cardinality(DOMAIN tasks)
NumScheds ==
  Cardinality(UNION {{<<t, k>> : k \in 1..Len(tasks[t].schedules)} : t \in DOMAIN tasks})

\* The getOffered tasks of department entry i, and their results in the
\* order of courseCodes (the order Promise.all keeps).
Batch(ts, i) == {t \in DOMAIN ts : t[1] = i}
\* BatchCourses in the order in which the calls settled.
BatchCourses_SettleOrder(ts, i) ==
  LET inBatch(t) == t[1] = i
      first == SelectSeq(settled, inBatch)
      rest == Batch(ts, i) \ {first[x] : x \in 1..Len(first)}
      order == first \o (IF rest = {} THEN <<>> ELSE <<CHOOSE t \in rest : TRUE>>)
  IN [x \in 1..Len(order) |-> ts[order[x]].courses]

BatchCourses(ts, i) ==
  [j \in 1..Cardinality(Batch(ts, i)) |-> ts[<<i, j>>].courses]

\* main, lines 155-159 and 167-179: the head of the for-of loop at entry i.
\* With an entry left, getCourseCodes issues its request and main awaits it;
\* after the last entry main logs `failed` (lines 174-176: an empty list
\* is shown by logging nothing) and writes courses.json (line 179).
LoopTop(i, deps, n, r, f) ==
  /\ di' = i
  /\ IF i <= Len(deps)
     THEN /\ pc' = "AwaitCourseCodes"
          /\ net' = Issue(n, CodesUnit(i), CodesUrl(deps[i]))
          /\ output' = output
     ELSE /\ pc' = "Done"
          /\ net' = n
          /\ output' = Append(output, [courses |-> r, failed |-> f])

\* main, line 146-152: main runs up to the await of getDepartments, whose
\* request (line 32) is issued.
MainStart ==
  /\ pc = "Idle"
  /\ pc' = "DiscoveringDepartments"
  /\ net' = Issue(net, BaseUnit, BaseUrl)
  /\ UNCHANGED <<departments, di, failed, results, tasks, settled, output, probe>>

\* getDepartments returns (lines 33-41); main enters the loop.
GetDepartmentsReturn ==
  /\ pc = "DiscoveringDepartments"
  /\ InFlight(BaseUnit)
  /\ \E page \in BasePages :
        /\ departments' = ExtractDepartments(page)
        /\ LoopTop(1, departments', Answer(net, BaseUnit, page), results, failed)
  /\ UNCHANGED <<failed, results, tasks, settled, probe>>

\* GetDepartmentsThrow with the error swallowed into an empty list.
GetDepartmentsThrow_EmptyList ==
  /\ pc = "DiscoveringDepartments"
  /\ InFlight(BaseUnit)
  /\ departments' = <<>>
  /\ LoopTop(1, <<>>, Reject(net, BaseUnit), results, failed)
  /\ UNCHANGED <<failed, results, tasks, settled, probe>>

\* getDepartments throws (lines 42-45); main has no handler: its promise
\* rejects and nothing after line 152 runs.
GetDepartmentsThrow ==
  /\ pc = "DiscoveringDepartments"
  /\ InFlight(BaseUnit)
  /\ pc' = "Error"
  /\ net' = Reject(net, BaseUnit)
  /\ UNCHANGED <<departments, di, failed, results, tasks, settled, output, probe>>

\* The state of a getOffered call that has issued its course-page request.
NewTask(subject, code) ==
  [subject |-> subject, code |-> code, state |-> "page", title |-> <<>>,
   schedules |-> <<>>, k |-> 0, courses |-> <<>>]

\* Line 161: courseCodes.map starts one getOffered per code, each running
\* to its first await (line 119).
RECURSIVE Launch(_, _, _, _)
Launch(ts, i, codes, j) ==
  IF j > Len(codes) THEN ts
  ELSE Launch(ts @@ (<<i, j>> :> NewTask(departments[i], codes[j])), i, codes, j + 1)

\* IssueCourses starting the next getOffered call only when the one before
\* has returned: only the first course-page request is issued.
IssueCourses_FirstOnly(n, i, codes, j) ==
  IF j > Len(codes) THEN n
  ELSE Issue(n, CourseUnit(i, j), CourseUrl(departments[i], codes[j]))

RECURSIVE IssueCourses(_, _, _, _)
IssueCourses(n, i, codes, j) ==
  IF j > Len(codes) THEN n
  ELSE IssueCourses(Issue(n, CourseUnit(i, j), CourseUrl(departments[i], codes[j])),
                    i, codes, j + 1)

\* Promise.all(batch i) is fulfilled when every member is (at once for no
\* member), and rejected as soon as one member is rejected.
AllFulfilled_NonEmpty(ts, i) ==
  Batch(ts, i) # {} /\ \A b \in Batch(ts, i) : ts[b].state = "resolved"
AllFulfilled(ts, i) == \A b \in Batch(ts, i) : ts[b].state = "resolved"

\* AllRejected with a rejected member never rejecting Promise.all.
AllRejected_Never(ts, i) == FALSE

AllRejected(ts, i) == \E b \in Batch(ts, i) : ts[b].state = "rejected"

\* main, line 162 and the next turn of the loop: the batch's courses are
\* pushed in the order of courseCodes.
PushBlock(ts, n) ==
  /\ failed' = failed
  /\ results' = results \o Flat(BatchCourses(ts, di))
  /\ LoopTop(di + 1, departments, n, results', failed')

\* CatchBlock with the courses of the batch pushed all the same.
CatchBlock_KeepPartial(ts, n) ==
  /\ failed' = Append(failed, departments[di])
  /\ results' = results \o Flat(BatchCourses(ts, di))
  /\ LoopTop(di + 1, departments, n, results', failed')

\* CatchBlock leaving the loop.
CatchBlock_Abort(ts, n) ==
  /\ failed' = Append(failed, departments[di])
  /\ results' = results
  /\ LoopTop(Len(departments) + 1, departments, n, results, failed')

\* CatchBlock without line 164.
CatchBlock_NoRecord(ts, n) ==
  /\ failed' = failed
  /\ results' = results
  /\ LoopTop(di + 1, departments, n, results, failed')

\* main, lines 163-165 and the next turn of the loop.
CatchBlock(ts, n) ==
  /\ failed' = Append(failed, departments[di])
  /\ results' = results
  /\ LoopTop(di + 1, departments, n, results, failed')

\* getCourseCodes returns (lines 58-67); main starts the department's
\* getOffered calls and awaits Promise.all (line 161).
GetCourseCodesReturn ==
  /\ pc = "AwaitCourseCodes"
  /\ InFlight(CodesUnit(di))
  /\ \E page \in CodePages(Min(MaxTasks - NumTasks, MaxTasks)) :
        LET courseCodes == ExtractCourseCodes(page)
            ts == Launch(tasks, di, courseCodes, 1)
            n == IssueCourses(Answer(net, CodesUnit(di), page), di, courseCodes, 1)
        IN /\ tasks' = ts
           /\ IF AllFulfilled(ts, di)
              THEN PushBlock(ts, n)
              ELSE /\ pc' = "AwaitAll"
                   /\ net' = n
                   /\ UNCHANGED <<di, failed, results, output>>
  /\ UNCHANGED <<departments, settled, probe>>

\* getCourseCodes throws (lines 68-70); main catches (lines 163-165).
GetCourseCodesThrow ==
  /\ pc = "AwaitCourseCodes"
  /\ InFlight(CodesUnit(di))
  /\ CatchBlock(tasks, Reject(net, CodesUnit(di)))
  /\ UNCHANGED <<departments, tasks, settled, probe>>

\* Settle with a call that returns after main has left its batch still
\* delivering its Courses.
Settle_LatePush(t, ts, n) ==
  /\ settled' = Append(settled, t)
  /\ IF pc = "AwaitAll" /\ t[1] = di /\ AllRejected(ts, di)
     THEN CatchBlock(ts, n)
     ELSE IF pc = "AwaitAll" /\ t[1] = di /\ AllFulfilled(ts, di)
     THEN PushBlock(ts, n)
     ELSE /\ net' = n
          /\ results' = IF t[1] < di /\ ts[t].state = "resolved"
                        THEN results \o ts[t].courses ELSE results
          /\ UNCHANGED <<pc, di, failed, output>>

\* Task t has settled into ts.  If it belongs to the batch main awaits,
\* Promise.all may settle and main resume; a task of a batch main no longer
\* awaits settles unobserved.
Settle(t, ts, n) ==
  /\ settled' = Append(settled, t)
  /\ IF pc = "AwaitAll" /\ t[1] = di /\ AllRejected(ts, di)
     THEN CatchBlock(ts, n)
     ELSE IF pc = "AwaitAll" /\ t[1] = di /\ AllFulfilled(ts, di)
     THEN PushBlock(ts, n)
     ELSE /\ net' = n
          /\ UNCHANGED <<pc, di, failed, results, output>>

\* Task t goes on to its next await.
Continue(n) ==
  /\ net' = n
  /\ UNCHANGED <<pc, di, failed, results, output, settled>>

\* IssueSections calling getSections for every schedule before awaiting any.
IssueSections_FanOut(n, t, schedules) ==
  LET all[k \in 0..Len(schedules)] ==
        IF k = 0 THEN n
        ELSE Issue(all[k - 1], SectionsUnit(t[1], t[2], k), SectionsUrl(schedules[k]))
  IN all[Len(schedules)]

\* Lines 133-134: the loop over the schedules awaits getSections of the
\* first schedule before it goes on to the second.
IssueSections(n, t, schedules) ==
  Issue(n, SectionsUnit(t[1], t[2], 1), SectionsUrl(schedules[1]))

\* getOffered, lines 119-134: the course page arrives; the task reads the
\* title and the schedule links and calls getSections for the first one,
\* or returns no course when there is none (line 140).
GetOfferedPage(t) ==
  /\ tasks[t].state = "page"
  /\ InFlight(CourseUnit(t[1], t[2]))
  /\ \E page \in CoursePages(Min(MaxScheds - NumScheds, MaxScheds)) :
        LET schedules == ExtractSchedules(page.links)
            n == Answer(net, CourseUnit(t[1], t[2]), page)
            ts == [tasks EXCEPT ![t].title = page.title,
                                ![t].schedules = schedules,
                                ![t].k = IF schedules = <<>> THEN 0 ELSE 1,
                                ![t].state = IF schedules = <<>> THEN "resolved"
                                             ELSE "sections"]
        IN /\ tasks' = ts
           /\ IF schedules = <<>>
              THEN Settle(t, ts, n)
              ELSE Continue(IssueSections(n, t, schedules))
  /\ UNCHANGED <<departments, probe>>

\* getOffered, lines 141-143: the course-page request failed.
GetOfferedPageThrow(t) ==
  /\ tasks[t].state = "page"
  /\ InFlight(CourseUnit(t[1], t[2]))
  /\ LET ts == [tasks EXCEPT ![t].state = "rejected"]
     IN /\ tasks' = ts
        /\ Settle(t, ts, Reject(net, CourseUnit(t[1], t[2])))
  /\ UNCHANGED <<departments, probe>>

\* Line 137: the Course of one schedule.
Course(task, schedule, sections) ==
  [code |-> task.code, sections |-> sections, subject |-> task.subject,
   title |-> task.title, term |-> TermOf(schedule)]

\* PushCourse without the test of line 136.
PushCourse_Always(courses, task, schedule, sections) ==
  Append(courses, Course(task, schedule, sections))

\* Lines 136-138: the course is pushed only when the schedule has sections.
PushCourse(courses, task, schedule, sections) ==
  IF sections # <<>> THEN Append(courses, Course(task, schedule, sections))
  ELSE courses

\* getSections returns (lines 84-96) into getOffered's loop (lines 133-139):
\* the task pushes the schedule's Course and goes on with the next schedule,
\* or returns its courses after the last one (line 140).
GetSectionsReturn(t) ==
  /\ tasks[t].state = "sections"
  /\ InFlight(SectionsUnit(t[1], t[2], tasks[t].k))
  /\ \E page \in SectionPages :
        LET task == tasks[t]
            k == task.k
            sections == ExtractSections(page)
            courses == PushCourse(task.courses, task, task.schedules[k], sections)
            last == k = Len(task.schedules)
            n == Answer(net, SectionsUnit(t[1], t[2], k), page)
            ts == [tasks EXCEPT ![t].courses = courses,
                                ![t].k = IF last THEN k ELSE k + 1,
                                ![t].state = IF last THEN "resolved" ELSE "sections"]
        IN /\ tasks' = ts
           /\ IF last
              THEN Settle(t, ts, n)
              ELSE Continue(Issue(n, SectionsUnit(t[1], t[2], k + 1),
                                  SectionsUrl(task.schedules[k + 1])))
  /\ UNCHANGED <<departments, probe>>

\* getSections throws (lines 97-99) and getOffered rethrows (lines 141-143).
GetSectionsThrow(t) ==
  /\ tasks[t].state = "sections"
  /\ InFlight(SectionsUnit(t[1], t[2], tasks[t].k))
  /\ LET ts == [tasks EXCEPT ![t].state = "rejected"]
     IN /\ tasks' = ts
        /\ Settle(t, ts, Reject(net, SectionsUnit(t[1], t[2], tasks[t].k)))
  /\ UNCHANGED <<departments, probe>>

OfferedPage == \E t \in DOMAIN tasks : GetOfferedPage(t)
OfferedPageThrow == \E t \in DOMAIN tasks : GetOfferedPageThrow(t)
SectionsReturn == \E t \in DOMAIN tasks : GetSectionsReturn(t)
SectionsThrow == \E t \in DOMAIN tasks : GetSectionsThrow(t)

Next ==
  \/ MainStart
  \/ GetDepartmentsReturn
  \/ GetDepartmentsThrow
  \/ GetCourseCodesReturn
  \/ GetCourseCodesThrow
  \/ OfferedPage
  \/ OfferedPageThrow
  \/ SectionsReturn
  \/ SectionsThrow

Spec == Init /\ [][Next]_vars

\* Every request that was issued is answered or fails in the end, and
\* main() is called (line 182).
TaskIds == (1..MaxDeptLinks) \X (1..MaxTasks)
OfferedCompletes(t) ==
  t \in DOMAIN tasks /\ (GetOfferedPage(t) \/ GetOfferedPageThrow(t))
SectionsCompletes(t) ==
  t \in DOMAIN tasks /\ (GetSectionsReturn(t) \/ GetSectionsThrow(t))
Fairness ==
  /\ WF_vars(MainStart)
  /\ WF_vars(GetDepartmentsReturn \/ GetDepartmentsThrow)
  /\ WF_vars(GetCourseCodesReturn \/ GetCourseCodesThrow)
  /\ \A t \in TaskIds : WF_vars(OfferedCompletes(t))
  /\ \A t \in TaskIds : WF_vars(SectionsCompletes(t))

SpecFair == Init /\ [][Next]_vars /\ Fairness

(***************************************************************************)
(* The extractors on their own: one call on one input.                     *)
(***************************************************************************)
\* Schedule strings: up to MaxPieces pieces of a query string.
TermPieces ==
  {<<"?">>, <<"&">>, <<"x">>, TermIn, <<"t", "e", "r", "m", "_", "i", "n">>,
   <<"2">>, <<"0">>, T202009}
ProbeSchedules == {Flat(ps) : ps \in SeqsUpTo(TermPieces, MaxPieces)}
ProbeTask == NewTask(CSC, C225)
ProbeSections == ExtractSections(<<LecText>>)

InitTerm ==
  /\ MainInit
  /\ probe \in [fn : {"getOffered"}, schedule : ProbeSchedules,
                called : {FALSE}, courses : {<<>>}]

\* getOffered, lines 135-138, for one schedule that has sections.
CallPushCourse ==
  /\ probe.called = FALSE
  /\ probe' = [probe EXCEPT !.called = TRUE,
                            !.courses = PushCourse(<<>>, ProbeTask, probe.schedule,
                                                   ProbeSections)]
  /\ UNCHANGED mainVars

SpecTerm == InitTerm /\ [][CallPushCourse]_vars

\* Link texts: every text of up to MaxProbeLen characters, and some of the
\* texts of the sections listing.
SectionChars == {"L", "1", " ", "-", "\n"}
SpecExampleText ==
  <<"L", "E", "C", " ", "-", " ", "1", "2", "3", "4", "5", " ", "-", " ", "A",
    " ", "-", " ", "L", "0", "1", " ", "s", "o", "m", "e", "t", "h", "i", "n", "g">>
CoopText ==
  <<"C", "o", "-", "o", "p", " ", "-", " ", "1", "2", "3", "4", "5", " ", "-",
    " ", "A", " ", "-", " ", "L", "0", "1">>
ProbeTexts ==
  SeqsUpTo(SectionChars, MaxProbeLen) \cup {SpecExampleText, LecText, CoopText}

InitSections ==
  /\ MainInit
  /\ probe \in [fn : {"getSections"}, text : ProbeTexts,
                called : {FALSE}, sections : {<<>>}]

\* getSections, lines 84-96, on a page with one link.
CallGetSections ==
  /\ probe.called = FALSE
  /\ probe' = [probe EXCEPT !.called = TRUE,
                            !.sections = ExtractSections(<<probe.text>>)]
  /\ UNCHANGED mainVars

SpecSections == InitSections /\ [][CallGetSections]_vars

\* Directory listings: up to MaxProbeLinks targets of up to 3 characters.
ProbeDeptHrefs == SeqsUpTo({"C", "c", "/"}, 3)
ProbeListings == SeqsUpTo(ProbeDeptHrefs, MaxProbeLinks)

InitDepartments ==
  /\ MainInit
  /\ probe \in [fn : {"getDepartments"}, page : ProbeListings,
                called : {FALSE}, departments : {<<>>}]

\* getDepartments, lines 33-41, on one listing.
CallGetDepartments ==
  /\ probe.called = FALSE
  /\ probe' = [probe EXCEPT !.called = TRUE,
                            !.departments = ExtractDepartments(probe.page)]
  /\ UNCHANGED mainVars

SpecDepartments == InitDepartments /\ [][CallGetDepartments]_vars

\* Department listings: up to MaxProbeLinks targets of up to 3 characters.
ProbeCodeHrefs == SeqsUpTo({"2", "9", ".", "h"}, 3)
ProbeCodeListings == SeqsUpTo(ProbeCodeHrefs, MaxProbeLinks)

InitCourseCodes ==
  /\ MainInit
  /\ probe \in [fn : {"getCourseCodes"}, page : ProbeCodeListings,
                called : {FALSE}, courses : {<<>>}]

\* getCourseCodes, lines 58-67, on one listing.
CallGetCourseCodes ==
  /\ probe.called = FALSE
  /\ probe' = [probe EXCEPT !.called = TRUE,
                            !.courses = ExtractCourseCodes(probe.page)]
  /\ UNCHANGED mainVars

SpecCourseCodes == InitCourseCodes /\ [][CallGetCourseCodes]_vars

(***************************************************************************)
(* What the fetched pages say, read from the fetcher's record of answers.  *)
(***************************************************************************)
Answered(u) == u \in DOMAIN net /\ net[u].status = "ok"
Failed(u) == u \in DOMAIN net /\ net[u].status = "failed"
Entries == 1..Len(departments)

CodesOfEntry(i) ==
  IF Answered(CodesUnit(i)) THEN ExtractCourseCodes(net[CodesUnit(i)].body) ELSE <<>>
SchedulesOfCourse(i, j) ==
  IF Answered(CourseUnit(i, j))
  THEN ExtractSchedules(net[CourseUnit(i, j)].body.links) ELSE <<>>
SectionsOfSchedule(i, j, k) ==
  IF Answered(SectionsUnit(i, j, k))
  THEN ExtractSections(net[SectionsUnit(i, j, k)].body) ELSE <<>>

\* A fetch of getOffered(departments[i], code j) failed.
OfferedFailed(i, j) ==
  \/ Failed(CourseUnit(i, j))
  \/ \E k \in 1..Len(SchedulesOfCourse(i, j)) : Failed(SectionsUnit(i, j, k))
AggregationFailed(i) == \E j \in 1..Len(CodesOfEntry(i)) : OfferedFailed(i, j)
EntryFailed(i) == Failed(CodesUnit(i)) \/ AggregationFailed(i)

\* The Courses the pages of entry i describe: by course code in listing
\* order, by schedule in page order, schedules without section left out.
HasSections(c) == c.sections # <<>>
PageCourses(i, j) ==
  SelectSeq([k \in 1..Len(SchedulesOfCourse(i, j)) |->
               [code |-> CodesOfEntry(i)[j],
                sections |-> SectionsOfSchedule(i, j, k),
                subject |-> departments[i],
                title |-> net[CourseUnit(i, j)].body.title,
                term |-> TermOf(SchedulesOfCourse(i, j)[k])]],
            HasSections)
EntryCourses(i) == Flat([j \in 1..Len(CodesOfEntry(i)) |-> PageCourses(i, j)])

\* The entries main has finished with.
Visited == {i \in Entries : i < di}
Contribution(i) ==
  IF i \in Visited /\ ~EntryFailed(i) THEN EntryCourses(i) ELSE <<>>
FailedNames ==
  LET isFailed(i) == i \in Visited /\ EntryFailed(i)
  IN [x \in 1..Cardinality({i \in Entries : isFailed(i)}) |->
        departments[CHOOSE i \in Entries :
            /\ isFailed(i)
            /\ Cardinality({h \in 1..i : isFailed(h)}) = x]]

Count(seq, x) == Cardinality({p \in 1..Len(seq) : seq[p] = x})
OfSubject(seq, D) == LET test(c) == c.subject = D IN SelectSeq(seq, test)
NotOfSubject(seq, D) == LET test(c) == c.subject # D IN SelectSeq(seq, test)

(***************************************************************************)
(* C1.  Department-level failure isolation.                                *)
(***************************************************************************)
\* C1 as stated: at the end of main, a department D with a failed
\* getOffered is in `failed` exactly once, `results` holds no Course of
\* subject D, and the Courses of the other departments are those their
\* pages describe, in listing order.
C1_IsolationByName ==
  pc = "Done" =>
    \A i \in Entries :
      AggregationFailed(i) =>
        LET D == departments[i]
        IN /\ Count(failed, D) = 1
           /\ OfSubject(results, D) = <<>>
           /\ NotOfSubject(results, D) =
                Flat([h \in Entries |->
                        IF departments[h] # D THEN Contribution(h) ELSE <<>>])

\* C1 amended: the same, by entry of the department list.  An entry with a
\* failed getOffered puts exactly one element into `failed` and no Course
\* into `results`; every other entry contributes what its pages describe.
C1_IsolationByEntry ==
  pc = "Done" =>
    \A i \in Entries :
      AggregationFailed(i) =>
        /\ failed = FailedNames
        /\ Count(failed, departments[i])
             = Cardinality({h \in Entries : EntryFailed(h) /\ departments[h] = departments[i]})
        /\ results = Flat([h \in Entries |-> IF h = i THEN <<>> ELSE Contribution(h)])

\* C1 witness: main has ended; the first entry lost a getOffered call and
\* the second one contributed a Course.
C1_Witness ==
  /\ pc = "Done"
  /\ Len(departments) = 2
  /\ AggregationFailed(1)
  /\ ~EntryFailed(2)
  /\ results # <<>>

(***************************************************************************)
(* C2.  Result order is discovery order.                                   *)
(***************************************************************************)
\* C2: whatever the order in which the fetches complete, `results` is the
\* Courses of the visited entries that did not fail, by department in
\* listing order, by course code in listing order, by schedule in page
\* order: a function of the page contents alone.
C2_DiscoveryOrder ==
  results = Flat([h \in Entries |-> Contribution(h)])

\* C2 witness: the second getOffered call of a department settled before
\* the first, and both contributed a Course.
C2_Witness ==
  /\ pc = "Done"
  /\ Len(settled) = 2
  /\ settled[1] = <<1, 2>>
  /\ settled[2] = <<1, 1>>
  /\ Len(results) = 2
  /\ results[1].code # results[2].code

(***************************************************************************)
(* C3.  A department's failure never aborts the crawl.                     *)
(***************************************************************************)
CodesUnitsIssued == {u \in DOMAIN net : u.kind = "codes"}

\* C3: once getDepartments has succeeded main never ends in error, the
\* getCourseCodes requests issued so far are those of entries 1..di, one
\* per entry and for that entry's department, and main is done only after
\* the last entry.
C3_EveryEntryVisited ==
  /\ pc = "Error" => Failed(BaseUnit)
  /\ Answered(BaseUnit) =>
       /\ pc \in {"AwaitCourseCodes", "AwaitAll", "Done"}
       /\ di \in 1..(Len(departments) + 1)
       /\ CodesUnitsIssued = {CodesUnit(i) : i \in {h \in Entries : h <= di}}
       /\ \A i \in Entries :
            i <= di => /\ net[CodesUnit(i)].count = 1
                       /\ net[CodesUnit(i)].url = CodesUrl(departments[i])
                       /\ i < di => ~InFlight(CodesUnit(i))
       /\ pc = "Done" <=> di = Len(departments) + 1

\* C3 witness: the first department failed in its course aggregation and
\* getCourseCodes was still called for the second.
C3_Witness ==
  /\ Len(departments) = 2
  /\ AggregationFailed(1)
  /\ CodesUnit(2) \in DOMAIN net

(***************************************************************************)
(* C4.  Department discovery failure is fatal, with no partial output.     *)
(***************************************************************************)
\* C4: when the fetch of the base catalog fails, main is in its error
\* state, no other request was issued, nothing was appended to `results`
\* or `failed`, and courses.json was not written.
C4_DiscoveryFailureIsFatal ==
  Failed(BaseUnit) =>
    /\ pc = "Error"
    /\ DOMAIN net = {BaseUnit}
    /\ DOMAIN tasks = {}
    /\ results = <<>>
    /\ failed = <<>>
    /\ output = <<>>

\* C4 witness: getDepartments has thrown.
C4_Witness == Failed(BaseUnit) /\ pc = "Error"

(***************************************************************************)
(* C5.  No Course with zero sections.                                      *)
(***************************************************************************)
NonEmptySections(seq) == \A p \in 1..Len(seq) : seq[p].sections # <<>>

\* The schedules of task t answered so far that have a section.
SchedulesWithSections(t) ==
  {k \in 1..Len(SchedulesOfCourse(t[1], t[2])) :
      SectionsOfSchedule(t[1], t[2], k) # <<>>}

\* C5: every Course in `results` and in the courses of a getOffered call
\* has a section; a call holds one Course per answered schedule that has a
\* section, none for a schedule without; and a schedule without section
\* fails nothing: a call is rejected, and a department is in `failed`,
\* only for a failed fetch.
C5_NoEmptyCourse ==
  /\ NonEmptySections(results)
  /\ \A t \in DOMAIN tasks :
       /\ NonEmptySections(tasks[t].courses)
       /\ tasks[t].state # "rejected" =>
            Len(tasks[t].courses) = Cardinality(SchedulesWithSections(t))
       /\ tasks[t].state = "rejected" => OfferedFailed(t[1], t[2])
  /\ failed = FailedNames

\* C5 witness: a schedule was answered with a page without section, its
\* getOffered call returned no Course and main ended with nothing failed.
C5_Witness ==
  /\ pc = "Done"
  /\ failed = <<>>
  /\ \E t \in DOMAIN tasks :
       /\ Answered(SectionsUnit(t[1], t[2], 1))
       /\ SectionsOfSchedule(t[1], t[2], 1) = <<>>
       /\ tasks[t].state = "resolved"
       /\ tasks[t].courses = <<>>

(***************************************************************************)
(* C6.  The end-to-end scenario with a failing course-code discovery.      *)
(***************************************************************************)
\* Departments CSC and MATH; CSC lists the code 225, whose page has one
\* schedule with two sections; the course-code fetch of MATH fails.
C6_Scenario ==
  /\ pc = "Done"
  /\ departments = <<CSC, MATH>>
  /\ Answered(CodesUnit(1)) /\ CodesOfEntry(1) = <<C225>>
  /\ Answered(CourseUnit(1, 1)) /\ Len(SchedulesOfCourse(1, 1)) = 1
  /\ Answered(SectionsUnit(1, 1, 1)) /\ Len(SectionsOfSchedule(1, 1, 1)) = 2
  /\ Failed(CodesUnit(2))

\* The place in `failed` of the element a failed entry i puts there.
FailedPosition(i) == Cardinality({h \in 1..i : EntryFailed(h)})

\* C6: in the scenario main ends with exactly one Course, of CSC 225 with
\* two sections, and with failed = ["MATH"].  In general an entry whose
\* getCourseCodes fetch failed is in `failed` and no getOffered call was
\* made for it.
C6_CourseCodesFailure ==
  /\ C6_Scenario =>
       /\ Len(results) = 1
       /\ results[1].subject = CSC
       /\ results[1].code = C225
       /\ Len(results[1].sections) = 2
       /\ failed = <<MATH>>
  /\ \A i \in Entries :
       Failed(CodesUnit(i)) =>
         /\ Batch(tasks, i) = {}
         /\ \A u \in DOMAIN net : u.i = i => u = CodesUnit(i)
         /\ Len(failed) >= FailedPosition(i)
         /\ failed[FailedPosition(i)] = departments[i]

\* C6 witness: the end of the scenario.
C6_Witness == C6_Scenario

(***************************************************************************)
(* C7.  Empty output is not a failure.                                     *)
(***************************************************************************)
\* C7: a department list without qualifying link ends the crawl normally
\* with empty `results` and `failed`; an entry whose course-code list is
\* empty is visited, is not failed, contributes no Course, and main goes
\* on to the next entry (or ends after the last); a course page without
\* schedule link makes its getOffered call return no Course.
C7_EmptyIsNotFailure ==
  /\ (Answered(BaseUnit) /\ ExtractDepartments(net[BaseUnit].body) = <<>>) =>
       /\ pc = "Done"
       /\ departments = <<>>
       /\ failed = <<>>
       /\ results = <<>>
       /\ output = <<[courses |-> results, failed |-> failed]>>
  /\ \A i \in Entries :
       (Answered(CodesUnit(i)) /\ CodesOfEntry(i) = <<>>) =>
         /\ i \in Visited
         /\ ~EntryFailed(i)
         /\ failed = FailedNames
         /\ Batch(tasks, i) = {}
         /\ IF i < Len(departments) THEN CodesUnit(i + 1) \in DOMAIN net
            ELSE pc = "Done"
  /\ \A t \in DOMAIN tasks :
       (Answered(CourseUnit(t[1], t[2])) /\ SchedulesOfCourse(t[1], t[2]) = <<>>) =>
         /\ tasks[t].state = "resolved"
         /\ tasks[t].courses = <<>>

\* C7 witness: the first of two departments lists no course code; nothing
\* failed and the second department was visited.
C7_Witness ==
  /\ pc = "Done"
  /\ Len(departments) = 2
  /\ Answered(CodesUnit(1)) /\ CodesOfEntry(1) = <<>>
  /\ Answered(CodesUnit(2))
  /\ failed = <<>>

(***************************************************************************)
(* C8.  Term extraction.                                                   *)
(***************************************************************************)
AllDigits(s) == \A p \in 1..Len(s) : s[p] \in Digit

\* The text "term_in=" stands at position p of q and the digits after it
\* run up to position e.
TermParamAt(q, p, e) ==
  /\ p >= 1 /\ p + 8 <= e /\ e <= Len(q)
  /\ SubSeq(q, p, p + 7) = <<"t", "e", "r", "m", "_", "i", "n", "=">>
  /\ AllDigits(SubSeq(q, p + 8, e))
  /\ e = Len(q) \/ q[e + 1] \notin Digit
HasTermParam(q, p) == \E e \in 1..Len(q) : TermParamAt(q, p, e)

\* C8: the Course of a schedule with sections carries as term the digits
\* of the first term_in=<digits> of the schedule's query string, and "0"
\* when the query string has none; a Course is always produced.
C8_TermExtraction ==
  probe.called =>
    LET q == probe.schedule
    IN /\ Len(probe.courses) = 1
       /\ IF \E p \in 1..Len(q) : HasTermParam(q, p)
          THEN \E p, e \in 1..Len(q) :
                  /\ TermParamAt(q, p, e)
                  /\ \A x \in 1..(p - 1) : ~HasTermParam(q, x)
                  /\ probe.courses[1].term = SubSeq(q, p + 8, e)
          ELSE probe.courses[1].term = <<"0">>

\* C8 witness: a schedule without digits after its first term_in= and with
\* term_in=202009 after it.
C8_Witness ==
  /\ probe.called
  /\ probe.schedule = TermIn \o <<"&">> \o TermIn \o T202009
  /\ probe.courses[1].term = T202009

(***************************************************************************)
(* C9.  Section extraction.                                                *)
(***************************************************************************)
\* C9 as stated, with "matches the pattern" read as the code's own test: a
\* matching link text gives one Section whose crn is the trimmed second
\* segment and a string of digits, whose sectionType is the second
\* character of the fourth segment and whose sectionNumber is its
\* characters 3-4; another text gives nothing; the example text gives
\* {crn: "12345", sectionType: "L", sectionNumber: "01"}.
C9_SectionExtraction ==
  probe.called =>
    LET t == probe.text
        segments == Split(t)
    IN /\ IF IsSectionText(t)
          THEN /\ Len(probe.sections) = 1
               /\ probe.sections[1].crn = Trim(segments[2])
               /\ AllDigits(probe.sections[1].crn)
               /\ probe.sections[1].sectionType = SubSeq(segments[4], 2, 2)
               /\ probe.sections[1].sectionNumber = SubSeq(segments[4], 3, 4)
          ELSE probe.sections = <<>>
       /\ t = SpecExampleText =>
            probe.sections = <<[crn |-> <<"1", "2", "3", "4", "5">>,
                                sectionType |-> <<"L">>,
                                sectionNumber |-> <<"0", "1">>]>>

(***************************************************************************)
(* C10.  Department extraction.                                            *)
(***************************************************************************)
\* A target with its trailing path separator stripped, nothing else.
StripSeparator(h) ==
  IF h # <<>> /\ h[Len(h)] = "/" THEN SubSeq(h, 1, Len(h) - 1) ELSE h
BeginsUpper(h) == h # <<>> /\ h[1] \in Upper

\* C10 as stated: getDepartments returns, in document order and with
\* duplicates, one entry per target that begins with an uppercase letter,
\* the target with its trailing path separator stripped.
C10_DepartmentExtraction ==
  probe.called =>
    LET qualifying == SelectSeq(probe.page, BeginsUpper)
    IN probe.departments =
         [x \in 1..Len(qualifying) |-> StripSeparator(qualifying[x])]

(***************************************************************************)
(* C11.  Course-code extraction.                                           *)
(***************************************************************************)
\* The part of a target before its first ".", the whole target without one.
BeforeFirstDot(h) ==
  IF \E p \in 1..Len(h) : h[p] = "."
  THEN SubSeq(h, 1, (CHOOSE p \in 1..Len(h) :
                        h[p] = "." /\ \A x \in 1..(p - 1) : h[x] # ".") - 1)
  ELSE h
Begins07(h) == h # <<>> /\ h[1] \in {"0", "1", "2", "3", "4", "5", "6", "7"}

\* C11 as stated: getCourseCodes keeps, in document order, exactly the
\* targets that begin with a digit 0-7, each as its part before the first
\* ".".
C11_CourseCodeExtraction ==
  probe.called =>
    LET retained == SelectSeq(probe.page, Begins07)
    IN probe.courses = [x \in 1..Len(retained) |-> BeforeFirstDot(retained[x])]

(***************************************************************************)
(* C12.  Departments one after the other.                                  *)
(***************************************************************************)
InFlightUnits == {u \in DOMAIN net : net[u].status = "inflight"}

\* C12 as stated: at every moment all the requests in flight belong to one
\* entry of the department list, also after one of its getOffered calls
\* failed; the getCourseCodes request of the next entry is not in flight
\* together with a request of the entry before.
C12_OneDepartmentInFlight ==
  \A u, v \in InFlightUnits : u.i = v.i

(***************************************************************************)
(* C13.  results and failed change only once the batch has settled.        *)
(***************************************************************************)
Pending(ts, i) == {t \in Batch(ts, i) : ts[t].state \in {"page", "sections"}}

\* C13 as stated: whenever main appends to results or to failed, no
\* getOffered call of the entry it is visiting is still in flight.
C13_AppendAfterBatchSettled ==
  [][(results' # results \/ failed' # failed) => Pending(tasks', di) = {}]_vars

C15_LaunchedTogether ==
  \A i \in Entries :
    Answered(CodesUnit(i)) =>
      /\ \A j \in 1..Len(CodesOfEntry(i)) : CourseUnit(i, j) \in DOMAIN net
      /\ (\A t \in Batch(tasks, i) : tasks[t].state = "page")
           => \A j \in 1..Len(CodesOfEntry(i)) : InFlight(CourseUnit(i, j))

\* main awaits a batch of two getOffered calls, none of them answered yet.
C15_Witness ==
  /\ pc = "AwaitAll"
  /\ Len(CodesOfEntry(di)) = 2
  /\ InFlight(CourseUnit(di, 1))
  /\ InFlight(CourseUnit(di, 2))

(***************************************************************************)
(* C16.  No request is made twice.                                         *)
(***************************************************************************)
IssuedOnce == \A u \in DOMAIN net : net[u].count = 1
CourseUnitsOf(i, code) ==
  {u \in DOMAIN net : u.kind = "course" /\ u.i = i /\ CodesOfEntry(i)[u.j] = code}
SectionsUnitsOf(i, j, schedule) ==
  {u \in DOMAIN net : /\ u.kind = "sections" /\ u.i = i /\ u.j = j
                      /\ SchedulesOfCourse(i, j)[u.k] = schedule}
Range(seq) == {seq[x] : x \in 1..Len(seq)}

\* A failed request fails what it was made for: the run, the entry, the
\* getOffered call and with it the entry.
FailureConverted ==
  /\ Failed(BaseUnit) => pc = "Error"
  /\ \A u \in DOMAIN net :
       Failed(u) /\ u.kind # "base" =>
         /\ u.i < di
         /\ \E x \in 1..Len(failed) : failed[x] = departments[u.i]
         /\ u.kind # "codes" => tasks[<<u.i, u.j>>].state = "rejected"

\* C16 as stated: no request is issued twice; the base page is requested
\* once, one course-code page per entry, at most one course page per entry
\* and course code, at most one sections page per course and schedule link;
\* a failure fails the enclosing unit.
C16_OncePerCode ==
  /\ IssuedOnce
  /\ Cardinality(CodesUnitsIssued) <= Len(departments)
  /\ \A i \in Entries :
       /\ \A code \in Range(CodesOfEntry(i)) :
             Cardinality(CourseUnitsOf(i, code)) <= 1
       /\ \A j \in 1..Len(CodesOfEntry(i)) :
             \A schedule \in Range(SchedulesOfCourse(i, j)) :
                Cardinality(SectionsUnitsOf(i, j, schedule)) <= 1
  /\ FailureConverted

\* C16, amended: no request is issued twice; the base page is requested
\* once, one course-code page per entry, one course page per occurrence of
\* a course code in the entry's listing, at most one sections page per
\* occurrence of a schedule link in a course page (a code or a link that
\* occurs twice is requested twice); a failure fails the enclosing unit.
C16_OncePerOccurrence ==
  /\ IssuedOnce
  /\ \A u \in DOMAIN net :
       \/ u = BaseUnit /\ net[u].url = BaseUrl
       \/ /\ u.kind = "codes" /\ u.i \in 1..di /\ u.j = 0 /\ u.k = 0
          /\ net[u].url = CodesUrl(departments[u.i])
       \/ /\ u.kind = "course" /\ u.j \in 1..Len(CodesOfEntry(u.i)) /\ u.k = 0
          /\ net[u].url = CourseUrl(departments[u.i], CodesOfEntry(u.i)[u.j])
       \/ /\ u.kind = "sections" /\ u.k \in 1..Len(SchedulesOfCourse(u.i, u.j))
          /\ net[u].url = SectionsUrl(SchedulesOfCourse(u.i, u.j)[u.k])
  /\ \A i \in Entries : i <= di => CodesUnit(i) \in DOMAIN net
  /\ FailureConverted

\* main is done after a getCourseCodes request and a getSections request
\* failed.
C16_Witness ==
  /\ pc = "Done"
  /\ \E u \in DOMAIN net : u.kind = "codes" /\ Failed(u)
  /\ \E u \in DOMAIN net : u.kind = "sections" /\ Failed(u)

(***************************************************************************)
(* C17.  All or nothing per department.                                    *)
(***************************************************************************)
InFailed(D) == \E x \in 1..Len(failed) : failed[x] = D
CoursesNamed(D) ==
  Flat([h \in Entries |-> IF departments[h] = D THEN EntryCourses(h) ELSE <<>>])

\* C17 as stated, a department being in `failed` by its name: at the end of
\* the loop every entry is in `failed` and `results` holds no Course of it,
\* or it is not in `failed` and `results` holds all its Courses; it is in
\* `failed` only if one of its requests failed.
C17_AllOrNothingByName ==
  pc = "Done" =>
    \A i \in Entries :
      LET D == departments[i]
      IN /\ \/ InFailed(D) /\ OfSubject(results, D) = <<>>
            \/ ~InFailed(D) /\ OfSubject(results, D) = CoursesNamed(D)
         /\ InFailed(D) => EntryFailed(i)

\* A getOffered call of an entry main has left settles.
LateSettle ==
  \E t \in DOMAIN tasks : t[1] < di /\ tasks'[t].state # tasks[t].state

\* C17, amended: at the end of the loop every entry of the list has either
\* put one element into `failed` and no Course into `results`, or no
\* element into `failed` and all the Courses its pages describe into
\* `results`; it has put an element into `failed` exactly if its
\* getCourseCodes request or a request of one of its getOffered calls
\* failed.  A getOffered call that settles after main has left its entry
\* changes neither `results` nor `failed`.
C17_AllOrNothingByEntry ==
  /\ [](pc = "Done" =>
          /\ di = Len(departments) + 1
          /\ Len(failed) = Cardinality({i \in Entries : EntryFailed(i)})
          /\ \A i \in Entries :
                EntryFailed(i) => failed[FailedPosition(i)] = departments[i]
          /\ results = Flat([i \in Entries |->
                               IF EntryFailed(i) THEN <<>> ELSE EntryCourses(i)]))
  /\ [][LateSettle => results' = results /\ failed' = failed]_vars

\* main is done; a getOffered call of a failed entry returned a Course
\* after another call of that entry had failed.
C17_Witness ==
  /\ pc = "Done"
  /\ \E x, y \in 1..Len(settled) :
       /\ x < y
       /\ settled[x][1] = settled[y][1]
       /\ tasks[settled[x]].state = "rejected"
       /\ tasks[settled[y]].state = "resolved"
       /\ tasks[settled[y]].courses # <<>>
  /\ Len(failed) = 1

(***************************************************************************)
(* C18.  Termination and the single emission.                              *)
(***************************************************************************)
Emitted == <<[courses |-> results, failed |-> failed]>>

====
